---- MODULE Spec2Model ----
(***************************************************************************)
(* Model of pyBadlands/hillslope/diffLinear.py: the class diffLinear, run  *)
(* by the `size` processes of MPI.COMM_WORLD, each owning one instance.    *)
(*                                                                         *)
(* Real numbers are exact rationals <<n, d>> in lowest terms with d > 0;   *)
(* the IEEE values produced by a division by zero are <<1, 0>> (inf),      *)
(* <<-1, 0>> (-inf) and <<0, 0>> (nan).  Python's None is <<>>.  Rounding  *)
(* of the floating-point operations is not modelled.                       *)
(*                                                                         *)
(* Spec      the processes of the run: configuration, stability calls on   *)
(*           the meshes of Meshes, the reductions, sedflux calls.          *)
(* FairSpec  Spec without sedflux; a reduction all have entered completes.  *)
(* SpecLocal one process, the stability calls on every bounded mesh.       *)
(* SpecFlux  one process, sedflux on every bounded node input.             *)
(***************************************************************************)
EXTENDS Integers, Sequences, FiniteSets

\* ---------------------------------------------------------------- bounds
MaxProcs == 2
MaxLen == 2
MaxNodes == 2
MaxEdge == 2
MaxCoeff == 1

Procs == 1..MaxProcs
Coeffs == 0..MaxCoeff
EdgeVals == (-1)..MaxEdge

RECURSIVE SeqsUpTo(_, _)
SeqsUpTo(S, n) ==
    IF n = 0 THEN {<<>>}
    ELSE LET shorter == SeqsUpTo(S, n - 1)
         IN  shorter \cup {Append(s, x) : s \in {t \in shorter : Len(t) = n - 1}, x \in S}

EdgeSeqs == SeqsUpTo(EdgeVals, MaxLen)

\* the edge lengths the partitions of the run hand to the stability calls: no
\* usable edge, and two meshes whose shortest edges differ
Meshes == { <<>>, <<0, -1>>, <<0, 2, 3>>, <<2, 1>> }

\* node data handed to sedflux: the three arrays need not have one length
FluxVals == {-3, 7}
ElevVals == {-1, 0, 1}
AreaVals == {-1, 0, 2}
SeaVals == {0}
NodeInputs ==
    [diff_flux : SeqsUpTo(FluxVals, MaxNodes), sea : SeaVals,
     elevation : SeqsUpTo(ElevVals, MaxNodes), area : SeqsUpTo(AreaVals, MaxNodes)]

\* the node data of the time loop: a dry node, a wet node and a zero-area node
LoopNodes ==
    { [diff_flux |-> <<10, 10, 7>>, sea |-> 0, elevation |-> <<5, -2, 1>>, area |-> <<2, 2, 0>>] }

\* ------------------------------------------------------------ arithmetic
None == <<>>
Inf == <<1, 0>>

Abs(n) == IF n < 0 THEN -n ELSE n
Sign(n) == IF n > 0 THEN 1 ELSE IF n < 0 THEN -1 ELSE 0

RECURSIVE GCD(_, _)
GCD(a, b) == IF b = 0 THEN a ELSE GCD(b, a % b)

\* the float n/d
Float(n, d) ==
    IF d = 0 THEN <<Sign(n), 0>>
    ELSE LET s == IF d < 0 THEN -1 ELSE 1
             g == GCD(Abs(n), Abs(d))
         IN  <<(s * n) \div g, (s * d) \div g>>

FromInt(n) == <<n, 1>>
FMul(x, y) == Float(x[1] * y[1], x[2] * y[2])
FDiv(x, y) == Float(x[1] * y[2] * Sign(IF y[1] = 0 THEN 1 ELSE y[1]), x[2] * Abs(y[1]))
FLeq(x, y) == x[1] * y[2] <= y[1] * x[2]
FMin(x, y) == IF FLeq(x, y) THEN x ELSE y
IsFinite(x) == x # None /\ x[2] # 0

\* Python's max() on two numbers: the first one unless the second is greater
PyMax(a, b) == IF FLeq(b, a) THEN a ELSE b

\* ------------------------------------------------------------------ state
VARIABLES
    size,       \* comm.Get_size(): number of processes of MPI.COMM_WORLD
    CDaerial,   \* self.CDaerial of each process
    CDmarine,   \* self.CDmarine of each process
    CFL,        \* self.CFL of each process
    pc,         \* "idle", or "Allreduce" while blocked in comm.Allreduce
    cur,        \* the slot (1 or 2) of the reduction a process is in or enters next
    sendbuf,    \* sendbuf[s][p]: what p contributed to the reduction in slot s
    ret,        \* what the last stability call that returned on p returned
    call,       \* the most recent stability call: caller, operation, argument, status
    mesh,       \* the edge lengths of the partition of a single-process run
    nodes,      \* the arrays and the sea level the caller passes to sedflux
    flux        \* how the most recent sedflux call ended, and what it returned

vars == <<size, CDaerial, CDmarine, CFL, pc, cur, sendbuf, ret, call, mesh, nodes, flux>>

Group == 1..size

NoCall == [proc |-> 0, op |-> "none", edgelen |-> <<>>, status |-> "none"]

NoFlux == [status |-> "none", value |-> None]

InitObjects ==
    /\ CDaerial = [p \in Procs |-> None]
    /\ CDmarine = [p \in Procs |-> None]
    /\ CFL = [p \in Procs |-> None]
    /\ pc = [p \in Procs |-> "idle"]
    /\ cur = [p \in Procs |-> 1]
    /\ sendbuf = [s \in 1..2 |-> [p \in Procs |-> None]]
    /\ ret = [p \in Procs |-> None]
    /\ call = NoCall
    /\ flux = NoFlux

Init ==
    /\ size \in Procs
    /\ mesh \in {<<>>}
    /\ nodes \in LoopNodes
    /\ InitObjects

\* Configuration: every process of the run sets the two coefficients of its
\* instance from the same input, once, before the time loop starts.
Configure(aerial, marine) ==
    /\ \A p \in Group : CDaerial[p] = None /\ pc[p] = "idle"
    /\ CDaerial' = [p \in Procs |-> IF p \in Group THEN FromInt(aerial) ELSE None]
    /\ CDmarine' = [p \in Procs |-> IF p \in Group THEN FromInt(marine) ELSE None]
    /\ UNCHANGED <<size, CFL, pc, cur, sendbuf, ret, call, mesh, nodes, flux>>

Configured(p) == CDaerial[p] # None /\ CDmarine[p] # None

\* ------------------------------------------------ the local candidates
\* faulty variant of WherePositive: a >= 0. lets the zero entries through
RECURSIVE WhereNonNegative(_, _)
WhereNonNegative(a, i) ==
    IF i > Len(a) THEN <<>>
    ELSE IF a[i] >= 0 THEN <<i>> \o WhereNonNegative(a, i + 1)
    ELSE WhereNonNegative(a, i + 1)

\* numpy.where(edgedist > 0.): the indices of the strictly positive entries
\* (edgelen is taken as already one-dimensional, so that flatten() yields its
\* entries in order)
RECURSIVE WherePositive(_, _)
WherePositive(a, i) ==
    IF i > Len(a) THEN <<>>
    ELSE IF a[i] > 0 THEN <<i>> \o WherePositive(a, i + 1)
    ELSE WherePositive(a, i + 1)

\* a[ids]: fancy indexing
TakeIds(a, ids) == [j \in 1..Len(ids) |-> a[ids[j]]]

\* a**2, elementwise
Squared(a) == [j \in 1..Len(a) |-> a[j] * a[j]]

\* faulty variant of Amin: the largest entry
RECURSIVE Amax(_)
Amax(a) ==
    IF Len(a) = 1 THEN a[1]
    ELSE LET m == Amax(Tail(a)) IN IF a[1] >= m THEN a[1] ELSE m

\* the smallest entry of a non-empty array
RECURSIVE Amin(_)
Amin(a) ==
    IF Len(a) = 1 THEN a[1]
    ELSE LET m == Amin(Tail(a)) IN IF a[1] <= m THEN a[1] ELSE m

\* faulty variant of numpy_amin: 0 for a zero-size array
numpy_amin_default(a) ==
    IF Len(a) = 0 THEN [status |-> "ok", value |-> 0]
    ELSE [status |-> "ok", value |-> Amin(a)]

\* numpy.amin: a zero-size array has no minimum and raises ValueError
numpy_amin(a) ==
    IF Len(a) = 0 THEN [status |-> "ValueError", value |-> 0]
    ELSE [status |-> "ok", value |-> Amin(a)]

\* lines 56-62 of dt_pstability: [status, value]
pstabilityLocal(edgelen, aerial, marine) ==
    LET maxCD == PyMax(aerial, marine)
        edgedist == edgelen
        distIDs == WherePositive(edgedist, 1)
        least == numpy_amin(Squared(TakeIds(edgedist, distIDs)))
    IN  IF least.status # "ok" THEN [status |-> least.status, value |-> None]
        ELSE [status |-> "ok",
              value |-> FDiv(FMul(Float(5, 100), FromInt(least.value)), maxCD)]

\* FLOWalgo.flowcompute.diffcfl: the native kernel.  One pass over the edges
\* keeps the least 0.05 * l^2 / maxCD over the strictly positive lengths l;
\* None stands for its failure when there is none.
RECURSIVE diffcflScan(_, _, _, _)
diffcflScan(edgelen, maxCD, i, best) ==
    IF i > Len(edgelen) THEN best
    ELSE LET cand == FDiv(FMul(Float(5, 100), FromInt(edgelen[i] * edgelen[i])), maxCD)
         IN  IF edgelen[i] > 0 /\ (best = None \/ FLeq(cand, best))
             THEN diffcflScan(edgelen, maxCD, i + 1, cand)
             ELSE diffcflScan(edgelen, maxCD, i + 1, best)

diffcfl(edgelen, maxCD) == diffcflScan(edgelen, maxCD, 1, None)

\* lines 87-90 of dt_fstability: [status, value]
fstabilityLocal(edgelen, aerial, marine) ==
    LET dt == diffcfl(edgelen, PyMax(aerial, marine))
    IN  IF dt = None THEN [status |-> "ValueError", value |-> None]
        ELSE [status |-> "ok", value |-> dt]

\* ------------------------------------------------- the stability calls
\* A stability call of a configured instance, up to the point where it
\* blocks in comm.Allreduce or raises before reaching it.
StabilityCall(p, op, edgelen, local) ==
    /\ pc[p] = "idle"
    /\ Configured(p)
    /\ call' = [proc |-> p, op |-> op, edgelen |-> edgelen, status |-> local.status]
    /\ IF local.status = "ok"
       THEN /\ sendbuf' = [sendbuf EXCEPT ![cur[p]][p] = local.value]
            /\ pc' = [pc EXCEPT ![p] = "Allreduce"]
       ELSE UNCHANGED <<sendbuf, pc>>
    /\ UNCHANGED <<size, CDaerial, CDmarine, CFL, cur, ret, mesh, nodes, flux>>

dt_pstability(p, edgelen) ==
    StabilityCall(p, "dt_pstability", edgelen, pstabilityLocal(edgelen, CDaerial[p], CDmarine[p]))

dt_fstability(p, edgelen) ==
    StabilityCall(p, "dt_fstability", edgelen, fstabilityLocal(edgelen, CDaerial[p], CDmarine[p]))

\* every process of the group has entered the reduction in slot s
AllArrived(s) == \A q \in Group : sendbuf[s][q] # None

FMax(x, y) == IF FLeq(x, y) THEN y ELSE x

\* faulty variant of ReduceMin: MPI.MAX
RECURSIVE ReduceMax(_, _)
ReduceMax(buf, n) ==
    IF n = 1 THEN buf[1] ELSE FMax(ReduceMax(buf, n - 1), buf[n])

\* MPI.MIN over the contributions of the n processes of the group
RECURSIVE ReduceMin(_, _)
ReduceMin(buf, n) ==
    IF n = 1 THEN buf[1] ELSE FMin(ReduceMin(buf, n - 1), buf[n])

\* p leaves the reduction in slot s; the last process to leave frees the slot
Leave(p, s) ==
    /\ pc' = [pc EXCEPT ![p] = "idle"]
    /\ cur' = [cur EXCEPT ![p] = 3 - s]
    /\ sendbuf' = IF \A q \in Group \ {p} : cur[q] # s
                  THEN [sendbuf EXCEPT ![s] = [q \in Procs |-> None]]
                  ELSE sendbuf
    /\ call' = [call EXCEPT !.status = IF call.proc = p THEN "returned" ELSE @]

\* faulty variant of AllreduceReturn: a CFL already stored is kept
AllreduceReturnOnce(p) ==
    /\ pc[p] = "Allreduce"
    /\ AllArrived(cur[p])
    /\ CFL' = [CFL EXCEPT ![p] = IF @ = None THEN ReduceMin(sendbuf[cur[p]], size) ELSE @]
    /\ Leave(p, cur[p])
    /\ ret' = [ret EXCEPT ![p] = None]
    /\ UNCHANGED <<size, CDaerial, CDmarine, mesh, nodes, flux>>

\* faulty variant of AllreduceReturn: the local candidate is stored without
\* waiting for the other processes
AllreduceReturnLocal(p) ==
    /\ pc[p] = "Allreduce"
    /\ CFL' = [CFL EXCEPT ![p] = sendbuf[cur[p]][p]]
    /\ Leave(p, cur[p])
    /\ ret' = [ret EXCEPT ![p] = None]
    /\ UNCHANGED <<size, CDaerial, CDmarine, mesh, nodes, flux>>

\* comm.Allreduce(MPI.IN_PLACE, CFL, op=MPI.MIN) completes on p; line 66 (or
\* 96) stores the result and the method ends without a return statement
AllreduceReturn(p) ==
    /\ pc[p] = "Allreduce"
    /\ AllArrived(cur[p])
    /\ CFL' = [CFL EXCEPT ![p] = ReduceMin(sendbuf[cur[p]], size)]
    /\ Leave(p, cur[p])
    /\ ret' = [ret EXCEPT ![p] = None]
    /\ UNCHANGED <<size, CDaerial, CDmarine, mesh, nodes, flux>>

\* ------------------------------------------------------------- sedflux
\* numpy.where(mask): the indices where the boolean array holds True
RECURSIVE where(_, _)
where(mask, i) ==
    IF i > Len(mask) THEN <<>>
    ELSE IF mask[i] THEN <<i>> \o where(mask, i + 1)
    ELSE where(mask, i + 1)

Range(ids) == {ids[j] : j \in 1..Len(ids)}

\* flux[ids] = flux[ids] * coeff
ScaleAt(a, ids, coeff) ==
    [i \in 1..Len(a) |-> IF i \in Range(ids) THEN FMul(a[i], coeff) ELSE a[i]]

\* elevation >= sea, elementwise
dryMask(elevation, sea) == [i \in 1..Len(elevation) |-> elevation[i] >= sea]

\* faulty variant of wetMask: elevation <= sea
wetMaskInclusive(elevation, sea) == [i \in 1..Len(elevation) |-> elevation[i] <= sea]

\* elevation < sea, elementwise
wetMask(elevation, sea) == [i \in 1..Len(elevation) |-> elevation[i] < sea]

\* lines 123-133 of sedflux: [status, value]
sedfluxBody(diff_flux, sea, elevation, area, aerial, marine) ==
    LET zeros == [i \in 1..Len(elevation) |-> FromInt(0)]
        tmpIDs == where([i \in 1..Len(area) |-> area[i] > 0], 1)
        ratio == [i \in 1..Len(zeros) |->
                      IF i \in Range(tmpIDs)
                      THEN FDiv(FromInt(diff_flux[i]), FromInt(area[i]))
                      ELSE zeros[i]]
        dryIDs == where(dryMask(elevation, sea), 1)
        dry == ScaleAt(ratio, dryIDs, aerial)
        wetIDs == where(wetMask(elevation, sea), 1)
        wet == ScaleAt(dry, wetIDs, marine)
    IN  IF \E i \in Range(tmpIDs) : i > Len(diff_flux) \/ i > Len(zeros)
        THEN [status |-> "IndexError", value |-> None]
        ELSE [status |-> "returned", value |-> wet]

\* faulty variant of sedflux: the call also writes self.CFL
sedfluxCaching(p) ==
    /\ pc[p] = "idle"
    /\ Configured(p)
    /\ flux' = sedfluxBody(nodes.diff_flux, nodes.sea, nodes.elevation, nodes.area,
                           CDaerial[p], CDmarine[p])
    /\ CFL' = [CFL EXCEPT ![p] = FromInt(0)]
    /\ UNCHANGED <<size, CDaerial, CDmarine, pc, cur, sendbuf, ret, call, mesh, nodes>>

\* a sedflux call of a configured instance on the node data of the caller
sedflux(p) ==
    /\ pc[p] = "idle"
    /\ Configured(p)
    /\ flux' = sedfluxBody(nodes.diff_flux, nodes.sea, nodes.elevation, nodes.area,
                           CDaerial[p], CDmarine[p])
    /\ UNCHANGED <<size, CDaerial, CDmarine, CFL, pc, cur, sendbuf, ret, call, mesh, nodes>>

\* --------------------------------------------------------- specifications
Next ==
    \/ \E a \in Coeffs, m \in Coeffs : Configure(a, m)
    \/ \E p \in Group :
        \/ \E e \in Meshes : dt_pstability(p, e)
        \/ \E e \in Meshes : dt_fstability(p, e)
        \/ AllreduceReturn(p)
        \/ sedflux(p)

Spec == Init /\ [][Next]_vars

\* the stability calls and their reductions alone; MPI completes a collective
\* once every process of the group has entered it
NextReduce ==
    \/ \E a \in Coeffs, m \in Coeffs : Configure(a, m)
    \/ \E p \in Group :
        \/ \E e \in Meshes : dt_pstability(p, e)
        \/ \E e \in Meshes : dt_fstability(p, e)
        \/ AllreduceReturn(p)

FairSpec == Init /\ [][NextReduce]_vars /\ \A p \in Procs : WF_vars(AllreduceReturn(p))

\* the stability calls alone, on every bounded mesh, in a single-process run
InitLocal ==
    /\ size = 1
    /\ mesh \in EdgeSeqs
    /\ nodes \in LoopNodes
    /\ InitObjects

NextLocal ==
    \/ \E a \in Coeffs, m \in Coeffs : Configure(a, m)
    \/ \E p \in Group :
        \/ dt_pstability(p, mesh)
        \/ dt_fstability(p, mesh)
        \/ AllreduceReturn(p)

SpecLocal == InitLocal /\ [][NextLocal]_vars

\* sedflux alone, on every bounded node input, in a single-process run
InitFlux ==
    /\ size = 1
    /\ mesh \in {<<>>}
    /\ nodes \in NodeInputs
    /\ InitObjects

NextFlux ==
    \/ \E a \in Coeffs, m \in Coeffs : Configure(a, m)
    \/ \E p \in Group : sedflux(p)

SpecFlux == InitFlux /\ [][NextFlux]_vars

\* ------------------------------------------------------------ properties
\* v is the least of the contributions of the group in buf
IsMinOf(v, buf) ==
    /\ \E q \in Group : v = buf[q]
    /\ \A q \in Group : FLeq(v, buf[q])

\* the step is the return of p from its reduction
Returns(p) == pc[p] = "Allreduce" /\ pc'[p] = "idle"

HasPositive(e) == \E i \in 1..Len(e) : e[i] > 0

\* the value the process blocked in its Allreduce contributed to it
Contribution(p) == sendbuf[cur[p]][p]

\* C1: a process that returns from a round stores the least of the local
\* candidates all processes contributed to that round, a value no greater
\* than its own candidate; processes that have returned from the same rounds
\* store the same value.
C1_GlobalMinimum ==
    /\ [][\A p \in Group :
             Returns(p) => (/\ IsMinOf(CFL'[p], sendbuf[cur[p]])
                            /\ FLeq(CFL'[p], sendbuf[cur[p]][p]))]_vars
    /\ [](\A p \in Group, q \in Group :
             (pc[p] = "idle" /\ pc[q] = "idle" /\ cur[p] = cur[q]) => CFL[p] = CFL[q])

C1_Witness ==
    /\ size > 1
    /\ \A p \in Group : pc[p] = "idle" /\ cur[p] = 2 /\ IsFinite(CFL[p])
    /\ call.status = "returned"
    /\ \E i \in 1..Len(call.edgelen) :
           /\ call.edgelen[i] > 0
           /\ \A j \in 1..Len(call.edgelen) : call.edgelen[j] > 0 => call.edgelen[i] <= call.edgelen[j]
           /\ CFL[call.proc] # FDiv(Float(5 * call.edgelen[i] * call.edgelen[i], 100),
                                    PyMax(CDaerial[call.proc], CDmarine[call.proc]))

\* C2: when the edge lengths hold a strictly positive entry and
\* max(aerial, marine) > 0, dt_pstability reaches the reduction and its local
\* candidate is 0.05 * l^2 / max(aerial, marine) for the least strictly
\* positive length l; zero and negative entries take no part.
C2_LocalCandidate ==
    LET p == call.proc
        e == call.edgelen
    IN  (/\ call.op = "dt_pstability"
         /\ HasPositive(e)
         /\ \E c \in {CDaerial[p], CDmarine[p]} : c[1] > 0)
        =>
        /\ call.status \in {"ok", "returned"}
        /\ call.status = "ok" =>
              \E i \in 1..Len(e), mx \in {CDaerial[p], CDmarine[p]} :
                  /\ e[i] > 0
                  /\ \A j \in 1..Len(e) : e[j] > 0 => e[i] <= e[j]
                  /\ FLeq(CDaerial[p], mx) /\ FLeq(CDmarine[p], mx)
                  /\ Contribution(p) = Float(e[i] * e[i] * mx[2], 20 * mx[1])

C2_Witness ==
    /\ call.op = "dt_pstability"
    /\ call.status = "ok"
    /\ call.edgelen = <<0, 2>>
    /\ CDaerial[call.proc] = FromInt(1)
    /\ CDmarine[call.proc] = FromInt(0)
    /\ Contribution(call.proc) = Float(2, 10)

SameLength(n) == Len(n.diff_flux) = Len(n.elevation) /\ Len(n.area) = Len(n.elevation)

\* the flux of node i as the specification states it
NodeFlux(n, i, aerial, marine) ==
    LET raw == IF n.area[i] > 0 THEN Float(n.diff_flux[i], n.area[i]) ELSE FromInt(0)
        coeff == IF n.elevation[i] >= n.sea THEN aerial ELSE marine
    IN  FMul(raw, coeff)

\* C3: on arrays of one length sedflux returns, for every node, the ratio
\* diff_flux/area (0 where the area is not positive) scaled by the aerial
\* coefficient where elevation >= sea and by the marine one elsewhere.
C3_FluxPerNode ==
    (flux.status # "none" /\ SameLength(nodes)) =>
        /\ flux.status = "returned"
        /\ Len(flux.value) = Len(nodes.elevation)
        /\ \A i \in 1..Len(nodes.elevation) :
               flux.value[i] = NodeFlux(nodes, i, CDaerial[1], CDmarine[1])

C3_Witness ==
    /\ flux.status = "returned"
    /\ SameLength(nodes)
    /\ CDaerial[1] # CDmarine[1]
    /\ \E i \in 1..Len(nodes.elevation), j \in 1..Len(nodes.elevation) :
           /\ nodes.elevation[i] = nodes.sea
           /\ nodes.area[i] > 0
           /\ flux.value[i] # FromInt(0)
           /\ nodes.area[j] <= 0
           /\ flux.value[j] = FromInt(0)

\* C4 as stated: the call stores the global minimum and returns it.
C4_StoresAndReturns ==
    \A p \in Group : CFL[p] # None => ret[p] = CFL[p]

\* C4, amended: when the reduction of a stability call completes, the call
\* stores the global minimum of that reduction in self.CFL, whatever was
\* stored before, changes no other process's CFL, and returns None.
C4_StoresAndReturnsNone ==
    [][\A p \in Group :
          Returns(p) =>
              /\ IsMinOf(CFL'[p], sendbuf[cur[p]])
              /\ ret'[p] = None
              /\ \A q \in Group \ {p} : CFL'[q] = CFL[q]]_vars

C4_Witness ==
    \E p \in Group, q \in Group :
        /\ pc[p] = "idle" /\ cur[p] = 1
        /\ pc[q] = "Allreduce" /\ cur[q] = 2
        /\ IsFinite(CFL[p]) /\ IsFinite(CFL[q])
        /\ CFL[p] # CFL[q]
        /\ IsMinOf(CFL[p], sendbuf[2])

\* the local result of the other stability operation on the logged call
OtherPath ==
    IF call.op = "dt_pstability"
    THEN fstabilityLocal(call.edgelen, CDaerial[1], CDmarine[1])
    ELSE pstabilityLocal(call.edgelen, CDaerial[1], CDmarine[1])

C6_RejectsShapeMismatch ==
    (flux.status # "none" /\ ~SameLength(nodes)) => flux.status = "IndexError"

\* C7 as stated: no stability call divides by max(aerial, marine) = 0, and
\* no infinite or not-a-number value is stored in self.CFL.
C7_NoDivisionByZero ==
    \A p \in Group :
        /\ (call.proc = p /\ call.op = "dt_pstability" /\ call.status = "ok")
               => IsFinite(Contribution(p))
        /\ CFL[p] # None => IsFinite(CFL[p])

\* C8: a dt_pstability call whose edge lengths hold no strictly positive
\* entry raises; the step stores nothing in self.CFL, enters no reduction
\* and leaves the process idle, free to call again.
C8_EmptyGeometryFails ==
    /\ []((call.op = "dt_pstability" /\ ~HasPositive(call.edgelen))
             => call.status = "ValueError")
    /\ [][(/\ call' # call
           /\ call'.op = "dt_pstability"
           /\ ~HasPositive(call'.edgelen))
          => (/\ CFL' = CFL
              /\ cur' = cur
              /\ sendbuf' = sendbuf
              /\ pc'[call'.proc] = "idle")]_vars

C8_Witness ==
    /\ call.op = "dt_pstability"
    /\ call.status = "ValueError"
    /\ call.edgelen = <<0, -1>>
    /\ IsFinite(CFL[call.proc])
    /\ pc[call.proc] = "idle"

\* C9: a process blocked in a reduction that some process of the group has
\* not entered neither leaves it nor stores its CFL; once every process has
\* entered it, every process blocked in it leaves it.
C9_Barrier ==
    /\ [][\A p \in Group :
             (pc[p] = "Allreduce" /\ \E q \in Group : sendbuf[cur[p]][q] = None)
                 => (pc'[p] = "Allreduce" /\ CFL'[p] = CFL[p])]_vars
    /\ \A p \in Procs :
           (p \in Group /\ pc[p] = "Allreduce" /\ \A q \in Group : sendbuf[cur[p]][q] # None)
               ~> (pc[p] = "idle")

C9_Witness ==
    \E p \in Group, q \in Group :
        /\ pc[p] = "Allreduce"
        /\ sendbuf[cur[p]][q] = None
        /\ call.proc = q
        /\ call.status = "ValueError"

\* C10: a sedflux call changes nothing but its own result: not its
\* arguments, the coefficients, any CFL, or the state of any reduction; and
\* its result is the per-node flux of the arguments and the coefficients
\* alone, one entry per node, whatever stability calls ran before.
C10_SedfluxIsLocal ==
    /\ [][flux' # flux =>
            UNCHANGED <<size, CDaerial, CDmarine, CFL, pc, cur, sendbuf, ret, call, mesh, nodes>>]_vars
    /\ [](flux.status # "none" =>
            /\ flux.status = "returned"
            /\ Len(flux.value) = Len(nodes.elevation)
            /\ \A i \in 1..Len(nodes.elevation) :
                   flux.value[i] = NodeFlux(nodes, i, CDaerial[1], CDmarine[1]))

C10_Witness ==
    /\ flux.status = "returned"
    /\ \E p \in Group : pc[p] = "Allreduce"
    /\ \E q \in Group : CFL[q] # None /\ pc[q] = "idle"

====
